---------------------------- MODULE Spec2Model ----------------------------
(***************************************************************************)
(* Log ingestion and query system (Goldenmist00/Log-query-interface).      *)
(*                                                                         *)
(* The backend is a Node.js process: every handler runs on one event loop, *)
(* and is cut into atomic pieces at each `await` on file I/O.  The model   *)
(* has one action per such piece (a handler's arrival is one action with   *)
(* its first readFile).  File I/O itself (fs.promises.readFile,            *)
(* fs.promises.writeFile) runs outside the event loop; writeFile is        *)
(* open(O_TRUNC) / write / close, three separate operations on the file.   *)
(*                                                                         *)
(* JavaScript strings are sequences of one-character strings.  Timestamps  *)
(* are written in an abbreviated notation, "HH" followed by a zone         *)
(* designator ("Z", "+h" or "-h"): <<"1","4","Z">> stands for              *)
(* 2024-01-15T14:00:00.000Z and <<"1","6","+","3">> for                    *)
(* 2024-01-15T16:00:00.000+03:00.                                          *)
(***************************************************************************)
EXTENDS Integers, Sequences, FiniteSets, TLC

(***************************************************************************)
(* Bounds of the model.                                                    *)
(***************************************************************************)
MaxReq == 2          \* HTTP requests handled in one behaviour
MaxClients == 1      \* WebSocket connections made in one behaviour
MaxInitLogs == 1     \* entries already in the data file at start-up
MaxStore == 2        \* entries in the data file that the searches read
MaxFetch == 3        \* GET /logs requests the page issues in one behaviour

Req == 1..MaxReq
Client == 1..MaxClients

(***************************************************************************)
(* JavaScript strings.                                                     *)
(***************************************************************************)
Upper == <<"A","B","C","D","E","F","G","H","I","J","K","L","M",
           "N","O","P","Q","R","S","T","U","V","W","X","Y","Z">>
Lower == <<"a","b","c","d","e","f","g","h","i","j","k","l","m",
           "n","o","p","q","r","s","t","u","v","w","x","y","z">>

\* String.prototype.toLowerCase, one character
ToLowerChar(c) ==
  IF \E i \in 1..26 : Upper[i] = c
  THEN Lower[CHOOSE i \in 1..26 : Upper[i] = c]
  ELSE c

\* String.prototype.toLowerCase
ToLowerCase(s) == [i \in 1..Len(s) |-> ToLowerChar(s[i])]

IsSpace(c) == c = " "

\* String.prototype.trim
RECURSIVE TrimStart(_)
TrimStart(s) ==
  IF s # <<>> /\ IsSpace(s[1]) THEN TrimStart(Tail(s)) ELSE s

RECURSIVE TrimEnd(_)
TrimEnd(s) ==
  IF s # <<>> /\ IsSpace(s[Len(s)])
  THEN TrimEnd(SubSeq(s, 1, Len(s) - 1))
  ELSE s

\* mutant of Trim: the string as it is
TrimNothing(s) == s

Trim(s) == TrimEnd(TrimStart(s))

\* mutant of Includes: the string starts with sub
StartsWith(s, sub) == Len(sub) <= Len(s) /\ SubSeq(s, 1, Len(sub)) = sub

\* String.prototype.includes
Includes(s, sub) ==
  \E i \in 0..(Len(s) - Len(sub)) : SubSeq(s, i + 1, i + Len(sub)) = sub

(***************************************************************************)
(* new Date(string).getTime(): the epoch time of a timestamp string, in    *)
(* hours after 2024-01-15T00:00Z, or NaN when the string is no date.       *)
(***************************************************************************)
Digits == <<"0","1","2","3","4","5","6","7","8","9">>
IsDigit(c) == \E i \in 1..10 : Digits[i] = c
DigitVal(c) == (CHOOSE i \in 1..10 : Digits[i] = c) - 1

NaN == [nan |-> TRUE, t |-> 0]
Time(h) == [nan |-> FALSE, t |-> h]

DateGetTime(s) ==
  IF Len(s) < 3 \/ ~IsDigit(s[1]) \/ ~IsDigit(s[2]) THEN NaN
  ELSE LET hh == 10 * DigitVal(s[1]) + DigitVal(s[2]) IN
       IF hh > 23 THEN NaN
       ELSE IF Len(s) = 3 /\ s[3] = "Z" THEN Time(hh)
       ELSE IF Len(s) = 4 /\ s[3] = "+" /\ IsDigit(s[4])
            THEN Time(hh - DigitVal(s[4]))
       ELSE IF Len(s) = 4 /\ s[3] = "-" /\ IsDigit(s[4])
            THEN Time(hh + DigitVal(s[4]))
       ELSE NaN

\* mutant of NumberIsNaN: no number is NaN
NumberIsNeverNaN(x) == FALSE

NumberIsNaN(x) == x.nan

(***************************************************************************)
(* JSON values of a request body.  typeof and the other tests of           *)
(* validateLogBody read the tag; a string's characters are in s, an        *)
(* object's key/value pairs in m.                                          *)
(***************************************************************************)
Undefined == [t |-> "undefined", s |-> <<>>, m |-> <<>>]
Null == [t |-> "null", s |-> <<>>, m |-> <<>>]
Str(s) == [t |-> "string", s |-> s, m |-> <<>>]
Num(s) == [t |-> "number", s |-> s, m |-> <<>>]
Obj(m) == [t |-> "object", s |-> <<>>, m |-> m]
Arr(m) == [t |-> "array", s |-> <<>>, m |-> m]

TypeOf(v) ==
  CASE v.t = "undefined" -> "undefined"
    [] v.t = "string" -> "string"
    [] v.t = "number" -> "number"
    [] OTHER -> "object"          \* null, arrays and plain objects

\* mutant of ArrayIsArray: nothing is an array
ArrayIsNeverArray(v) == FALSE

ArrayIsArray(v) == v.t = "array"

\* ToBoolean: undefined, null, "" and 0 are falsy
Truthy(v) ==
  CASE v.t = "undefined" -> FALSE
    [] v.t = "null" -> FALSE
    [] v.t = "string" -> v.s # <<>>
    [] v.t = "number" -> v.s # <<"0">>
    [] OTHER -> TRUE

\* mutant of LEVELS: a fifth level
LEVELSAndCritical ==
  << <<"e","r","r","o","r">>, <<"w","a","r","n">>, <<"i","n","f","o">>,
     <<"d","e","b","u","g">>, <<"c","r","i","t","i","c","a","l">> >>

LEVELS == << <<"e","r","r","o","r">>, <<"w","a","r","n">>,
             <<"i","n","f","o">>, <<"d","e","b","u","g">> >>

REQUIRED_STRING_FIELDS ==
  <<"level", "message", "resourceId", "timestamp", "traceId", "spanId", "commit">>

BodyFields ==
  {"level", "message", "resourceId", "timestamp", "traceId", "spanId", "commit",
   "metadata"}

\* A request body: a JSON value; props are the properties of an object
\* (an array, like every other non-object, has none of the named ones).
ObjBody(props) == [t |-> "object", props |-> props]
AtomBody(t) == [t |-> t, props |-> [f \in BodyFields |-> Undefined]]

\* body[field]
Prop(body, field) == body.props[field]

\* validateLogBody's first test: !body || typeof body !== 'object'
BodyIsObject(body) == body.t \in {"object", "array"}

\* mutant of FirstBadField: the last defective field instead of the first
LastBadField(body) ==
  LET bad == {i \in 1..Len(REQUIRED_STRING_FIELDS) :
                LET v == Prop(body, REQUIRED_STRING_FIELDS[i]) IN
                  v.t \in {"undefined", "null"} \/ TypeOf(v) # "string"}
  IN IF bad = {} THEN 0 ELSE CHOOSE i \in bad : \A j \in bad : i >= j

\* the first required field, in the order of REQUIRED_STRING_FIELDS, that is
\* missing or not a string; 0 when there is none
FirstBadField(body) ==
  LET bad == {i \in 1..Len(REQUIRED_STRING_FIELDS) :
                LET v == Prop(body, REQUIRED_STRING_FIELDS[i]) IN
                  v.t \in {"undefined", "null"} \/ TypeOf(v) # "string"}
  IN IF bad = {} THEN 0 ELSE CHOOSE i \in bad : \A j \in bad : i <= j

Invalid(message, field) ==
  [ok |-> FALSE, name |-> "ValidationError", message |-> message,
   field |-> field, log |-> <<>>]

validateLogBody(body) ==
  IF ~BodyIsObject(body)
  THEN Invalid("Request body must be a JSON object", "")
  ELSE
  LET i == FirstBadField(body) IN
  IF i # 0
  THEN LET field == REQUIRED_STRING_FIELDS[i] IN
       IF Prop(body, field).t \in {"undefined", "null"}
       THEN Invalid("Missing required field: ", field)
       ELSE Invalid("Field must be a string: ", field)
  ELSE
  LET level == ToLowerCase(Prop(body, "level").s)
      metadata == Prop(body, "metadata")
  IN
  IF ~(\E k \in 1..Len(LEVELS) : LEVELS[k] = level)
  THEN Invalid("Invalid level: must be one of error, warn, info, debug", "")
  ELSE IF NumberIsNaN(DateGetTime(Prop(body, "timestamp").s))
  THEN Invalid("Invalid timestamp: must be valid ISO 8601 date string", "")
  ELSE IF metadata.t # "undefined"
          /\ (TypeOf(metadata) # "object" \/ metadata.t = "null"
              \/ ArrayIsArray(metadata))
  THEN Invalid("Field metadata must be an object", "")
  ELSE [ok |-> TRUE, name |-> "", message |-> "", field |-> "",
        log |-> [level |-> level,
                 message |-> Prop(body, "message").s,
                 resourceId |-> Prop(body, "resourceId").s,
                 timestamp |-> Prop(body, "timestamp").s,
                 traceId |-> Prop(body, "traceId").s,
                 spanId |-> Prop(body, "spanId").s,
                 commit |-> Prop(body, "commit").s,
                 metadata |-> IF Truthy(metadata) /\ TypeOf(metadata) = "object"
                                 /\ ~ArrayIsArray(metadata)
                              THEN metadata.m ELSE <<>>]]


(***************************************************************************)
(* Query engine (log.service): sortByTimestampDesc, matchesFilter, query.  *)
(***************************************************************************)
QUERY_PARAM_KEYS ==
  <<"level", "message", "resourceId", "timestamp_start", "timestamp_end",
    "traceId", "spanId", "commit">>

\* the comparator of sortByTimestampDesc; Array.prototype.sort reads a NaN
\* result as 0
CompareDesc(a, b) ==
  LET ta == DateGetTime(a.timestamp)
      tb == DateGetTime(b.timestamp)
  IN IF ta.nan \/ tb.nan THEN 0 ELSE tb.t - ta.t

\* one insertion of the stable sort: x goes after the last element that the
\* comparator does not place behind it
InsertBy(sorted, x) ==
  LET keep == {i \in 1..Len(sorted) : CompareDesc(sorted[i], x) <= 0}
      k == IF keep = {} THEN 0 ELSE CHOOSE i \in keep : \A j \in keep : j <= i
  IN SubSeq(sorted, 1, k) \o <<x>> \o SubSeq(sorted, k + 1, Len(sorted))

RECURSIVE SortFrom(_, _)
SortFrom(logs, sorted) ==
  IF logs = <<>> THEN sorted
  ELSE SortFrom(Tail(logs), InsertBy(sorted, Head(logs)))

\* mutant of sortByTimestampDesc: the timestamps compared as strings
CharCode(c) ==
  CASE c = "+" -> 43 [] c = "-" -> 45 [] c = "Z" -> 90
    [] IsDigit(c) -> 48 + DigitVal(c) [] OTHER -> 0

RECURSIVE StrLess(_, _)
StrLess(a, b) ==
  IF b = <<>> THEN FALSE
  ELSE IF a = <<>> THEN TRUE
  ELSE IF a[1] # b[1] THEN CharCode(a[1]) < CharCode(b[1])
  ELSE StrLess(Tail(a), Tail(b))

RECURSIVE SortStringsFrom(_, _)
SortStringsFrom(logs, sorted) ==
  IF logs = <<>> THEN sorted
  ELSE LET x == Head(logs)
           keep == {i \in 1..Len(sorted) : ~StrLess(sorted[i].timestamp, x.timestamp)}
           k == IF keep = {} THEN 0 ELSE CHOOSE i \in keep : \A j \in keep : j <= i
       IN SortStringsFrom(Tail(logs),
            SubSeq(sorted, 1, k) \o <<x>> \o SubSeq(sorted, k + 1, Len(sorted)))

sortByTimestampString(logs) == SortStringsFrom(logs, <<>>)

\* [...logs].sort(comparator): a new array, stable (ECMAScript 2019)
sortByTimestampDesc(logs) == SortFrom(logs, <<>>)

\* mutant of LevelEquals: the level contains the filter value
LevelContains(level, str) == Includes(level, str)

\* case 'level': String(log.level || '').toLowerCase() === str
LevelEquals(level, str) == level = str

\* mutant of NotBefore: the lower bound is exclusive
StrictlyAfter(logTime, startTime) == ~logTime.nan /\ logTime.t > startTime.t

\* logTime >= startTime (false when logTime is NaN)
NotBefore(logTime, startTime) == ~logTime.nan /\ logTime.t >= startTime.t

\* logTime <= endTime (false when logTime is NaN)
NotAfter(logTime, endTime) == ~logTime.nan /\ logTime.t <= endTime.t

matchesFilter(log, key, value) ==
  IF value = <<>> \/ Trim(value) = <<>> THEN TRUE
  ELSE
  LET str == ToLowerCase(Trim(value)) IN
  CASE key = "message" -> Includes(ToLowerCase(log.message), str)
    [] key = "level" -> LevelEquals(ToLowerCase(log.level), str)
    [] key = "resourceId" -> Includes(ToLowerCase(log.resourceId), str)
    [] key = "traceId" -> Includes(ToLowerCase(log.traceId), str)
    [] key = "spanId" -> Includes(ToLowerCase(log.spanId), str)
    [] key = "commit" -> Includes(ToLowerCase(log.commit), str)
    [] key = "timestamp_start" ->
         LET logTime == DateGetTime(log.timestamp)
             startTime == DateGetTime(value)
         IN IF NumberIsNaN(startTime) THEN TRUE
            ELSE NotBefore(logTime, startTime)
    [] key = "timestamp_end" ->
         LET logTime == DateGetTime(log.timestamp)
             endTime == DateGetTime(value)
         IN IF NumberIsNaN(endTime) THEN TRUE
            ELSE NotAfter(logTime, endTime)
    [] OTHER -> TRUE

\* mutant of MatchesAll: one filter that matches is enough
MatchesAny(log, filters) ==
  \E key \in DOMAIN filters : matchesFilter(log, key, filters[key])

\* A filter set is a function from the keys it holds to strings; a key whose
\* value is undefined or null is a key the function does not hold.
MatchesAll(log, filters) ==
  \A key \in DOMAIN filters : matchesFilter(log, key, filters[key])

\* query, after its readLogs: filter, then sort
QueryLogs(logs, filters) ==
  LET Keep(log) == MatchesAll(log, filters)
  IN sortByTimestampDesc(SelectSeq(logs, Keep))

\* filtersFromQuery (log.controller): only the known keys, trimmed, non-blank
filtersFromQuery(query) ==
  LET keys == {QUERY_PARAM_KEYS[i] : i \in 1..Len(QUERY_PARAM_KEYS)}
      kept == {k \in keys \cap DOMAIN query : Trim(query[k]) # <<>>}
  IN [k \in kept |-> Trim(query[k])]


(***************************************************************************)
(* The data file (db.service).  Its content is                             *)
(*   absent   the file does not exist yet;                                 *)
(*   empty    zero bytes: the file was opened with O_TRUNC by writeFile    *)
(*            and nothing has been written since;                          *)
(*   json     JSON.stringify(logs, null, 2) of the array `logs`;           *)
(*   corrupt  a text that is no JSON: the start of one text followed by    *)
(*            the rest of a longer one written by an overlapping write.    *)
(* len is the length of the text.                                          *)
(***************************************************************************)
RECURSIVE SumLen(_)
SumLen(strs) == IF strs = <<>> THEN 0 ELSE Len(Head(strs)) + SumLen(Tail(strs))

\* "{}", or one line per pair between "{" and "    }"
RECURSIVE PairsLen(_)
PairsLen(m) ==
  IF m = <<>> THEN 0
  ELSE 6 + Len(Head(m)[1]) + 6 + Len(Head(m)[2]) + 2 + PairsLen(Tail(m))

MetadataLen(m) == IF m = <<>> THEN 2 ELSE 2 + PairsLen(m) - 1 + 5

\* one entry, indented by two: seven lines `    "name": "value",`, the
\* metadata line, and the two brace lines
EntryLen(log) ==
  4 + 134
  + SumLen(<<log.level, log.message, log.resourceId, log.timestamp,
             log.traceId, log.spanId, log.commit>>)
  + 16 + MetadataLen(log.metadata) + 1 + 3

RECURSIVE EntriesLen(_)
EntriesLen(logs) ==
  IF logs = <<>> THEN 0 ELSE EntryLen(Head(logs)) + 2 + EntriesLen(Tail(logs))

\* the length of JSON.stringify(logs, null, 2)
JsonLen(logs) == IF logs = <<>> THEN 2 ELSE 2 + EntriesLen(logs) - 2 + 2

Absent == [kind |-> "absent", logs |-> <<>>, len |-> 0]
Empty == [kind |-> "empty", logs |-> <<>>, len |-> 0]
Json(logs) == [kind |-> "json", logs |-> logs, len |-> JsonLen(logs)]
Corrupt(len) == [kind |-> "corrupt", logs |-> <<>>, len |-> len]

\* ensureDataFile: writes '[]' when the file is missing
\* mutant of ensureDataFile: a missing file is left missing
ensureDataFileNever(f) == f

\* mutant of ensureDataFile: '[]' is written whether the file exists or not
ensureDataFileAlways(f) == [kind |-> "json", logs |-> <<>>, len |-> 2]

ensureDataFile(f) == IF f.kind = "absent" THEN Json(<<>>) ELSE f

\* readLogs, after its readFile has delivered `raw`:
\* raw.trim() ? JSON.parse(raw) : [], and the array test
ReadLogsResult(raw) ==
  CASE raw.kind = "absent" -> [ok |-> FALSE, logs |-> <<>>, error |-> "ENOENT"]
    [] raw.kind = "empty" -> [ok |-> TRUE, logs |-> <<>>, error |-> ""]
    [] raw.kind = "corrupt" -> [ok |-> FALSE, logs |-> <<>>, error |-> "SyntaxError"]
    [] OTHER -> [ok |-> TRUE, logs |-> raw.logs, error |-> ""]

\* the write of writeFile: `logs` as text, from offset 0 of the file as it is
\* now.  What another write has put there since this one's open stays behind
\* the new text when it is longer.
WriteAt(f, logs) ==
  IF f.len > JsonLen(logs) THEN Corrupt(f.len) ELSE Json(logs)


(***************************************************************************)
(* Inputs of the behaviours: request bodies and query strings.             *)
(***************************************************************************)
BodyOf(level, message, resourceId, timestamp, traceId, metadata) ==
  ObjBody([f \in BodyFields |->
    CASE f = "level" -> Str(level)
      [] f = "message" -> message
      [] f = "resourceId" -> Str(resourceId)
      [] f = "timestamp" -> Str(timestamp)
      [] f = "traceId" -> Str(traceId)
      [] f = "spanId" -> Str(<<"s","1">>)
      [] f = "commit" -> Str(<<"c","1">>)
      [] OTHER -> metadata])

\* {level:"ERROR", message:"Db", resourceId:"s1", timestamp 14:00Z, metadata:{}}
BodyA ==
  BodyOf(<<"E","R","R","O","R">>, Str(<<"D","b">>), <<"s","1">>,
         <<"1","4","Z">>, <<"t","1">>, Obj(<<>>))

\* {level:"info", message:"ok", timestamp 16:00+03:00 (13:00Z), no metadata}:
\* later than BodyA's as a string, earlier as an instant
BodyB ==
  BodyOf(<<"i","n","f","o">>, Str(<<"o","k">>), <<"s","2">>,
         <<"1","6","+","3">>, <<"t","2">>, Undefined)

\* BodyB without `message`
BodyNoMessage ==
  BodyOf(<<"i","n","f","o">>, Undefined, <<"s","2">>,
         <<"1","6","+","3">>, <<"t","2">>, Undefined)

Bodies == {BodyA, BodyB, BodyNoMessage}

LogA == validateLogBody(BodyA).log
LogB == validateLogBody(BodyB).log

NoQuery == [k \in {} |-> <<>>]
QueryLevel == [k \in {"level"} |-> <<"E","R","R","O","R">>]
QueryMessage == [k \in {"message"} |-> <<" ","O"," ">>]
QueryBlank == [k \in {"level", "timestamp_end"} |-> <<" ">>]
QueryRange ==
  [k \in {"timestamp_start", "timestamp_end"} |->
     IF k = "timestamp_start" THEN <<"1","3","Z">> ELSE <<"1","7","+","3">>]

\* the query strings of the whole-system behaviours, and those of the searches
Queries == {NoQuery}
SearchQueries == {NoQuery, QueryLevel, QueryMessage, QueryBlank, QueryRange}

NoBody == AtomBody("undefined")
NoLog ==
  [level |-> <<>>, message |-> <<>>, resourceId |-> <<>>, timestamp |-> <<>>,
   traceId |-> <<>>, spanId |-> <<>>, commit |-> <<>>, metadata |-> <<>>]

\* the collections an earlier run of the server can have left in the file
RECURSIVE SeqsUpTo(_, _)
SeqsUpTo(S, n) ==
  IF n = 0 THEN {<<>>}
  ELSE LET shorter == SeqsUpTo(S, n - 1)
       IN shorter \cup {Append(q, x) : q \in shorter, x \in S}

InitCollections == SeqsUpTo({LogA}, MaxInitLogs)

\* {level:"warn", message:"Took", timestamp 09:00-05:00 (14:00Z), metadata {k: v}}
BodyC ==
  BodyOf(<<"w","a","r","n">>, Str(<<"T","o","o","k">>), <<"s","1">>,
         <<"0","9","-","5">>, <<"t","3">>, Obj(<< <<<<"k">>, <<"v">>>> >>))

LogC == validateLogBody(BodyC).log

SearchCollections == SeqsUpTo({LogA, LogB, LogC}, MaxStore)

\* The values a query string gives to each key in the filter behaviours: for
\* the level a value in another case and one that is only a part of a level;
\* for the message a padded letter and two letters inside a word; instants
\* that are the timestamp of a stored entry, written in another zone;
\* a value that is no date; a blank.
FilterValues(key) ==
  CASE key = "level" -> {<<"E","R","R","O","R">>, <<"e","r","r">>, <<" ">>}
    [] key = "message" -> {<<" ","O"," ">>, <<"O","O">>, <<" ">>}
    [] key = "resourceId" -> {<<"S","1">>}
    [] key = "traceId" -> {<<"t","2">>}
    [] key = "spanId" -> {<<"1">>}
    [] key = "commit" -> {<<"C","1">>}
    [] key = "timestamp_start" -> {<<"1","3","Z">>, <<"1","4","Z">>, <<"x">>}
    [] OTHER -> {<<"1","7","+","3">>, <<"1","3","Z">>, <<"x">>}

QueryKeys == {QUERY_PARAM_KEYS[i] : i \in 1..Len(QUERY_PARAM_KEYS)}

\* a key with one of its values
KeyValues ==
  {kv \in QueryKeys \X UNION {FilterValues(k) : k \in QueryKeys} :
     kv[2] \in FilterValues(kv[1])}

\* the query strings with one key, and those with two
OneKeyQueries == {[k \in {kv[1]} |-> kv[2]] : kv \in KeyValues}

TwoKeyQueries ==
  {[k \in {p[1][1], p[2][1]} |-> IF k = p[1][1] THEN p[1][2] ELSE p[2][2]] :
     p \in {p \in KeyValues \X KeyValues : p[1][1] # p[2][1]}}

FilterQueries == OneKeyQueries \cup TwoKeyQueries

(***************************************************************************)
(* State.                                                                  *)
(***************************************************************************)
VARIABLES
  deployment,  \* "express" (backend/src/index.js) or "serverless" (api handler)
  file,        \* the content of config.DATA_FILE
  pc,          \* where each request's handler stands
  req,         \* each request: method, body, query string
  local,       \* the handler's variables: log (validated), logs, filters
  res,         \* each response: status and JSON body
  clients,     \* wss.clients with each one's readyState
  inbox,       \* what client.send has sent to each connection, in order
  hook,        \* the page's useLogs hook: filters, list, requests issued
  hist         \* history, read by the properties only:
               \*   initLogs   the collection in the file at start-up
               \*   durable    the last collection written to the file in full
               \*   completed  the requests whose appendLog returned, in order
               \*   published  the calls of broadcast: request and log

vars == <<deployment, file, pc, req, local, res, clients, inbox, hook, hist>>

NoLocal == [log |-> NoLog, logs |-> <<>>, filters |-> NoQuery]

NoResponse ==
  [status |-> 0, log |-> NoLog, logs |-> <<>>, error |-> "", field |-> ""]

(***************************************************************************)
(* The page (frontend): App holds the filters and hands them to useLogs.   *)
(* Of the filters the level is followed; 'All' stands for no level.        *)
(***************************************************************************)
LevelAll == <<"A","l","l">>

\* the levels the filter bar offers, of which these are followed
HookLevels == {LevelAll, <<"e","r","r","o","r">>, <<"i","n","f","o">>}

\* useState: logs [], loading false, error null; no request issued yet
HookInit ==
  [mounted |-> FALSE, level |-> LevelAll, logs |-> <<>>, loading |-> FALSE,
   error |-> "", fetches |-> <<>>]

InitWith(files) ==
  /\ deployment \in {"express", "serverless"}
  /\ file \in files
  /\ pc = [r \in Req |-> "idle"]
  /\ req = [r \in Req |-> [method |-> "", body |-> NoBody, query |-> NoQuery]]
  /\ local = [r \in Req |-> NoLocal]
  /\ res = [r \in Req |-> NoResponse]
  /\ clients = [c \in Client |-> "new"]
  /\ inbox = [c \in Client |-> <<>>]
  /\ hook = HookInit
  /\ hist = [initLogs |-> file.logs, durable |-> file.logs, completed |-> <<>>,
             published |-> <<>>, created |-> FALSE]

Init == InitWith({Absent} \cup {Json(c) : c \in InitCollections})

(***************************************************************************)
(* The catch blocks of the controller and of the serverless handler:       *)
(* 400 for a ValidationError, 500 for anything else.                       *)
(***************************************************************************)
\* mutant of ErrorResponse: every error answers 500
ErrorResponseAll500(name, message, field) ==
  [status |-> 500, log |-> NoLog, logs |-> <<>>, error |-> message, field |-> field]

\* mutant of ErrorResponse: every error answers 400
ErrorResponseAll400(name, message, field) ==
  [status |-> 400, log |-> NoLog, logs |-> <<>>, error |-> message, field |-> field]

ErrorResponse(name, message, field) ==
  [status |-> IF name = "ValidationError" THEN 400 ELSE 500,
   log |-> NoLog, logs |-> <<>>, error |-> message, field |-> field]

\* mutant of Created: an error when a connection of wss.clients is not open
CreatedIfDelivered(log) ==
  IF \E c \in Client : clients[c] = "closing"
  THEN [status |-> 500, log |-> NoLog, logs |-> <<>>, error |-> "EPIPE", field |-> ""]
  ELSE [status |-> 201, log |-> log, logs |-> <<>>, error |-> "", field |-> ""]

Created(log) ==
  [status |-> 201, log |-> log, logs |-> <<>>, error |-> "", field |-> ""]

Ok(logs) ==
  [status |-> 200, log |-> NoLog, logs |-> logs, error |-> "", field |-> ""]

\* the handler of request r has answered: its variables are gone
Answer(r, response) ==
  /\ res' = [res EXCEPT ![r] = response]
  /\ pc' = [pc EXCEPT ![r] = "done"]
  /\ local' = [local EXCEPT ![r] = NoLocal]

(***************************************************************************)
(* ws/broadcast.js.  wss is set by setWss when index.js is loaded, before  *)
(* the server listens, and `log` is an object: broadcast's early return is *)
(* never taken.  wss.clients holds the open and the closing connections;   *)
(* readyState 1 is OPEN.                                                   *)
(***************************************************************************)
InWssClients(state) == state \in {"open", "closing"}

\* mutant of ReadyStateOpen: CLOSING passes the test too
ReadyStateOpenOrClosing(state) == state \in {"open", "closing"}

ReadyStateOpen(state) == state = "open"

\* mutant of Send: the payload is put before what was sent
SendFirst(sent, msg) == <<msg>> \o sent

\* mutant of Send: the payload is dropped
SendNothing(sent, msg) == sent

\* client.send(payload): the payload follows what was sent before
Send(sent, msg) == Append(sent, msg)

\* the payload is JSON.stringify(log); req names the request it comes from
broadcast(r, log) ==
  [c \in Client |->
     IF InWssClients(clients[c]) /\ ReadyStateOpen(clients[c])
     THEN Send(inbox[c], [req |-> r, payload |-> log])
     ELSE inbox[c]]

\* Requests are numbered in their order of arrival, connections in their
\* order of connection.
Arrives(r) == pc[r] = "idle" /\ (IF r = 1 THEN TRUE ELSE pc[r - 1] # "idle")

(***************************************************************************)
(* fs.promises.readFile delivers the content of the file, or rejects with  *)
(* an I/O error of the medium.                                             *)
(***************************************************************************)
ReadOutcomes == {"ok", "EIO"}

\* readLogs: ensureDataFile, readFile, parse
readLogs(f, io) ==
  IF io = "ok" THEN ReadLogsResult(ensureDataFile(f))
  ELSE [ok |-> FALSE, logs |-> <<>>, error |-> io]

\* what ensureDataFile does to the file and to the history
Ensured ==
  /\ file' = ensureDataFile(file)
  /\ hist' = IF file.kind = "absent"
             THEN [hist EXCEPT !.durable = <<>>, !.created = TRUE] ELSE hist

(***************************************************************************)
(* POST, up to the writeFile: logService.ingest runs validateLogBody,      *)
(* which throws before appendLog is called; appendLog runs ensureDataFile  *)
(* and readLogs, pushes the log and issues the writeFile.  A request is    *)
(* taken to arrive when its readFile reads the file: before that it has    *)
(* done nothing another request can see, but create a missing file.        *)
(***************************************************************************)
IngestStart(r, body, io) ==
  /\ Arrives(r)
  /\ req' = [req EXCEPT ![r] = [method |-> "POST", body |-> body, query |-> NoQuery]]
  /\ LET v == validateLogBody(body) IN
       IF ~v.ok
       THEN /\ Answer(r, ErrorResponse(v.name, v.message, v.field))
            /\ UNCHANGED <<file, hist>>
       ELSE LET got == readLogs(file, io) IN
            /\ Ensured
            /\ IF got.ok
               THEN /\ local' = [local EXCEPT ![r] =
                                   [log |-> v.log, logs |-> Append(got.logs, v.log),
                                    filters |-> NoQuery]]
                    /\ pc' = [pc EXCEPT ![r] = "writeOpen"]
                    /\ res' = res
               ELSE Answer(r, ErrorResponse("Error", got.error, ""))
  /\ UNCHANGED <<deployment, clients, inbox, hook>>

\* fs.promises.writeFile, its open: flag 'w' truncates the file
WriteOpen(r) ==
  /\ pc[r] = "writeOpen"
  /\ file' = Empty
  /\ pc' = [pc EXCEPT ![r] = "writeData"]
  /\ UNCHANGED <<deployment, req, local, res, clients, inbox, hist, hook>>

\* fs.promises.writeFile, its write
WriteData(r) ==
  /\ pc[r] = "writeData"
  /\ file' = WriteAt(file, local[r].logs)
  /\ hist' = IF file'.kind = "json"
             THEN [hist EXCEPT !.durable = file'.logs] ELSE hist
  /\ pc' = [pc EXCEPT ![r] = "written"]
  /\ UNCHANGED <<deployment, req, local, res, clients, inbox, hook>>

\* fs.promises.writeFile rejects: its open fails and the file is as it was,
\* or its write fails (ENOSPC, EIO) and the file stays as the open left it
WriteError(r) ==
  /\ pc[r] \in {"writeOpen", "writeData"}
  /\ Answer(r, ErrorResponse("Error", "EIO", ""))
  /\ UNCHANGED <<deployment, file, req, clients, inbox, hist, hook>>

\* mutant of IngestResult: the raw level instead of the validated log's
IngestResultRaw(r) == [local[r].log EXCEPT !.level = Prop(req[r].body, "level").s]

\* `const log = await logService.ingest(body)`: what appendLog returned
IngestResult(r) == local[r].log

\* log.controller ingest after `await logService.ingest(body)`: appendLog has
\* returned the log; broadcast, then 201.  The continuations from the
\* writeFile's completion to here are microtasks of one event-loop turn.
ControllerIngestDone(r) ==
  /\ deployment = "express"
  /\ pc[r] = "written"
  /\ inbox' = broadcast(r, IngestResult(r))
  /\ hist' = [hist EXCEPT
                !.completed = Append(@, r),
                !.published = Append(@, [req |-> r, log |-> IngestResult(r)])]
  /\ Answer(r, Created(IngestResult(r)))
  /\ UNCHANGED <<deployment, file, req, clients, hook>>

\* the serverless handler after `await logService.ingest(body)`: 201, and no
\* broadcast ("WebSocket broadcasting is not available in serverless")
HandlerPostDone(r) ==
  /\ deployment = "serverless"
  /\ pc[r] = "written"
  /\ hist' = [hist EXCEPT !.completed = Append(@, r)]
  /\ Answer(r, Created(IngestResult(r)))
  /\ UNCHANGED <<deployment, file, req, clients, inbox, hook>>

(***************************************************************************)
(* GET: filtersFromQuery, then logService.query: readLogs, filter, sort.   *)
(***************************************************************************)
Query(r, query, io) ==
  /\ Arrives(r)
  /\ req' = [req EXCEPT ![r] = [method |-> "GET", body |-> NoBody, query |-> query]]
  /\ Ensured
  /\ LET got == readLogs(file, io) IN
       IF got.ok
       THEN Answer(r, Ok(QueryLogs(got.logs, filtersFromQuery(query))))
       ELSE Answer(r, ErrorResponse("Error", got.error, ""))
  /\ UNCHANGED <<deployment, clients, inbox, hook>>

(***************************************************************************)
(* WebSocket connections (index.js: new WebSocketServer({ server })).  The *)
(* server adds a connection to wss.clients in state OPEN; a close          *)
(* handshake makes it CLOSING; when the socket has closed it is CLOSED and *)
(* removed from wss.clients, and its record here is dropped.  The          *)
(* serverless deployment has no WebSocket server.                          *)
(***************************************************************************)
WsConnect(c) ==
  /\ deployment = "express"
  /\ clients[c] = "new"
  /\ IF c = 1 THEN TRUE ELSE clients[c - 1] # "new"
  /\ clients' = [clients EXCEPT ![c] = "open"]
  /\ UNCHANGED <<deployment, file, pc, req, local, res, inbox, hist, hook>>

WsClosing(c) ==
  /\ clients[c] = "open"
  /\ clients' = [clients EXCEPT ![c] = "closing"]
  /\ UNCHANGED <<deployment, file, pc, req, local, res, inbox, hist, hook>>

WsClosed(c) ==
  /\ clients[c] \in {"open", "closing"}
  /\ clients' = [clients EXCEPT ![c] = "closed"]
  /\ inbox' = [inbox EXCEPT ![c] = <<>>]
  /\ UNCHANGED <<deployment, file, pc, req, local, res, hist, hook>>

(***************************************************************************)
(* hooks/useLogs.ts.  fetchLogs is rebuilt when `filters` changes and the  *)
(* effect on it calls it: setLoading(true), setError(null), the URL from   *)
(* the filters, `await fetch(url)`.  When the response is there the        *)
(* continuation sets the list: the body for a 2xx, [] and the error        *)
(* otherwise.  Nothing cancels a request or tells its continuation that a  *)
(* later one was issued.  A request is kept in hook.fetches with the       *)
(* filters it was built from and, once answered, its response.             *)
(***************************************************************************)
\* fetchLogs, the query string: level is appended unless it is 'All'
ParamsOf(level) ==
  IF level = LevelAll THEN NoQuery ELSE [k \in {"level"} |-> level]

\* fetchLogs up to its `await fetch(url)`
FetchLogsStart(h, level) ==
  [h EXCEPT !.level = level, !.loading = TRUE, !.error = "",
            !.fetches = Append(@, [level |-> level, pending |-> TRUE, data |-> <<>>])]

\* first render: the effect calls fetchLogs with the initial filters
HookMount ==
  /\ ~hook.mounted
  /\ hook' = [FetchLogsStart(hook, hook.level) EXCEPT !.mounted = TRUE]
  /\ UNCHANGED <<deployment, file, pc, req, local, res, clients, inbox, hist>>

\* FilterBar's onFiltersChange -> App's setFilters: new filters, new fetchLogs,
\* and the effect calls it
SetFilters(level) ==
  /\ hook.mounted
  /\ level # hook.level
  /\ Len(hook.fetches) < MaxFetch
  /\ hook' = FetchLogsStart(hook, level)
  /\ UNCHANGED <<deployment, file, pc, req, local, res, clients, inbox, hist>>

\* the response to request i is there: GET /logs answered by the backend from
\* the data file, then fetchLogs from `await fetch(url)` to its end
FetchLogsDone(i, io) ==
  /\ i \in DOMAIN hook.fetches
  /\ hook.fetches[i].pending
  /\ LET got == readLogs(file, io)
         data == IF got.ok
                 THEN QueryLogs(got.logs,
                                filtersFromQuery(ParamsOf(hook.fetches[i].level)))
                 ELSE <<>>
     IN hook' = [hook EXCEPT
                   !.logs = data,
                   !.error = IF got.ok THEN @ ELSE "API error",
                   !.loading = FALSE,
                   !.fetches[i] = [@ EXCEPT !.pending = FALSE, !.data = data]]
  /\ UNCHANGED <<deployment, file, pc, req, local, res, clients, inbox, hist>>


(***************************************************************************)
(* Specifications.                                                         *)
(*   Spec        the whole backend: submissions, searches, live stream.    *)
(*   SpecIngest  submissions and the live stream, no search in progress;   *)
(*               requests differ by their number, not by their entry.      *)
(*   SpecValidate submissions with levels in and outside the enum, no      *)
(*               connection.                                               *)
(*   SpecSearch  searches over the collections a store can hold.           *)
(*   SpecFilter  one search, with each set of one or two filters.          *)
(*   SpecBody    one submission, with each shape of body.                  *)
(*   SpecStore   submissions and searches on a missing or existing file.   *)
(*   SpecWatch   one search, with connections coming and going.            *)
(*   SpecHook    the page's useLogs hook over a fixed store.               *)
(***************************************************************************)
\* the pieces that follow the arrival of a submission, and the connections
Steps ==
  \/ \E r \in Req : WriteOpen(r)
  \/ \E r \in Req : WriteData(r)
  \/ \E r \in Req : WriteError(r)
  \/ \E r \in Req : ControllerIngestDone(r)
  \/ \E r \in Req : HandlerPostDone(r)
  \/ \E c \in Client : WsConnect(c)
  \/ \E c \in Client : WsClosing(c)
  \/ \E c \in Client : WsClosed(c)

Next ==
  \/ \E r \in Req, body \in Bodies, io \in ReadOutcomes : IngestStart(r, body, io)
  \/ Steps
  \/ \E r \in Req, query \in Queries, io \in ReadOutcomes : Query(r, query, io)

\* {level:"CRITICAL", ...}: a level outside the enum
BodyCritical ==
  BodyOf(<<"C","R","I","T","I","C","A","L">>, Str(<<"o","k">>), <<"s","2">>,
         <<"1","6","+","3">>, <<"t","2">>, Undefined)

\* {level:"DeBug", ...}: a level of the enum in mixed case
BodyDebug ==
  BodyOf(<<"D","e","B","u","g">>, Str(<<"o","k">>), <<"s","2">>,
         <<"1","6","+","3">>, <<"t","2">>, Undefined)

\* the submissions of SpecValidate: levels in upper case, in mixed case and
\* outside the enum
LevelBodies == {BodyA, BodyDebug, BodyCritical}

\* submissions and their writes, no connection
ValidateNext ==
  \/ \E r \in Req, body \in LevelBodies, io \in ReadOutcomes : IngestStart(r, body, io)
  \/ \E r \in Req : WriteOpen(r)
  \/ \E r \in Req : WriteData(r)
  \/ \E r \in Req : WriteError(r)
  \/ \E r \in Req : ControllerIngestDone(r)
  \/ \E r \in Req : HandlerPostDone(r)

SpecValidate == Init /\ [][ValidateNext]_vars

\* the submissions of SpecIngest: one body that is stored, one that is rejected
IngestBodies == {BodyA, BodyNoMessage}

IngestNext ==
  \/ \E r \in Req, body \in IngestBodies, io \in ReadOutcomes : IngestStart(r, body, io)
  \/ Steps

Spec == Init /\ [][Next]_vars

SpecIngest == Init /\ [][IngestNext]_vars

InitSearch == InitWith({Json(c) : c \in SearchCollections})

SearchNext ==
  \E r \in Req, query \in SearchQueries, io \in ReadOutcomes : Query(r, query, io)

SpecSearch == InitSearch /\ [][SearchNext]_vars

\* one search, with one of the filter sets
FilterNext ==
  \E query \in FilterQueries, io \in ReadOutcomes : Query(1, query, io)

SpecFilter == InitSearch /\ [][FilterNext]_vars



(***************************************************************************)
(* SpecBody: one submission, with each shape of body validateLogBody tells *)
(* apart: bodies that are not objects, each kind of metadata, an empty     *)
(* message, and one or two defective required fields, alone or together    *)
(* with a level, a timestamp and a metadata that are invalid too.          *)
(***************************************************************************)
\* { ...body, [field]: value }
BodyWith(body, field, value) == ObjBody([body.props EXCEPT ![field] = value])

\* null, undefined, 5, "x" and [] as bodies
NonObjectBodies ==
  {AtomBody("null"), AtomBody("undefined"), AtomBody("number"),
   AtomBody("string"), AtomBody("array")}

\* metadata: absent, null, {}, {k: "v"}, [], 5, "x"
MetadataValues ==
  {Undefined, Null, Obj(<<>>), Obj(<< <<<<"k">>, <<"v">>>> >>), Arr(<<>>),
   Num(<<"5">>), Str(<<"x">>)}

MetadataBodies == {BodyWith(BodyA, "metadata", v) : v \in MetadataValues}

\* { ...BodyA, message: "" }
BodyEmptyMessage == BodyWith(BodyA, "message", Str(<<>>))

\* a required field that is absent, null, or the number 5
Defects == {Undefined, Null, Num(<<"5">>)}

RequiredFields == {REQUIRED_STRING_FIELDS[i] : i \in DOMAIN REQUIRED_STRING_FIELDS}

\* BodyA with a level outside the enum, a timestamp that is no date and an
\* array as metadata
BodyBadRest ==
  BodyWith(BodyWith(BodyWith(BodyA, "level", Str(<<"C","R","I","T","I","C","A","L">>)),
                    "timestamp", Str(<<"x">>)),
           "metadata", Arr(<<>>))

\* one or two defective fields
DefectBodies ==
  {BodyWith(BodyWith(base, f, v), g, w) :
     base \in {BodyA, BodyBadRest}, f \in RequiredFields, g \in RequiredFields,
     v \in Defects, w \in Defects}

ShapeBodies ==
  NonObjectBodies \cup MetadataBodies \cup {BodyEmptyMessage, BodyBadRest}
  \cup DefectBodies

BodyNext ==
  \/ \E body \in ShapeBodies, io \in ReadOutcomes : IngestStart(1, body, io)
  \/ \E r \in Req : WriteOpen(r)
  \/ \E r \in Req : WriteData(r)
  \/ \E r \in Req : WriteError(r)
  \/ \E r \in Req : ControllerIngestDone(r)
  \/ \E r \in Req : HandlerPostDone(r)

SpecBody == Init /\ [][BodyNext]_vars



(***************************************************************************)
(* SpecStore: submissions of one body and unfiltered searches, on a data   *)
(* file that is missing or holds a collection; no connection.              *)
(***************************************************************************)
StoreNext ==
  \/ \E r \in Req, io \in ReadOutcomes : IngestStart(r, BodyA, io)
  \/ \E r \in Req, io \in ReadOutcomes : Query(r, NoQuery, io)
  \/ \E r \in Req : WriteOpen(r)
  \/ \E r \in Req : WriteData(r)
  \/ \E r \in Req : WriteError(r)
  \/ \E r \in Req : ControllerIngestDone(r)
  \/ \E r \in Req : HandlerPostDone(r)

SpecStore == Init /\ [][StoreNext]_vars



(***************************************************************************)
(* SpecWatch: one search, with connections coming and going.               *)
(***************************************************************************)
WatchNext ==
  \/ \E query \in SearchQueries, io \in ReadOutcomes : Query(1, query, io)
  \/ \E c \in Client : WsConnect(c)
  \/ \E c \in Client : WsClosing(c)
  \/ \E c \in Client : WsClosed(c)

SpecWatch == InitSearch /\ [][WatchNext]_vars



(***************************************************************************)
(* SpecHook: the page over a store of two entries, the user changing the   *)
(* level filter.                                                           *)
(***************************************************************************)
InitHook == InitWith({Json(<<LogA, LogB>>)})

HookNext ==
  \/ HookMount
  \/ \E level \in HookLevels : SetFilters(level)
  \/ \E i \in 1..MaxFetch, io \in ReadOutcomes : FetchLogsDone(i, io)

SpecHook == InitHook /\ [][HookNext]_vars


(***************************************************************************)
(* Properties.                                                             *)
(***************************************************************************)
Count(x, seq) == Cardinality({i \in DOMAIN seq : seq[i] = x})

\* the ingest of request r has returned successfully
Stored(r) == req[r].method = "POST" /\ res[r].status = 201

\* no handler is between its arrival and its answer
Quiet == \A r \in Req : pc[r] \in {"idle", "done"}

\* no request has been answered with a storage error
NoStorageError == \A r \in Req : res[r].status # 500

\* an appendLog is between its readFile and the return of its writeFile
Appending(r) == pc[r] \in {"writeOpen", "writeData", "written"}

\* the successful ingests of entry e
IngestsOf(e) == {r \in Req : Stored(r) /\ res[r].log = e}

Entries == {LogA, LogB}

\* C1: no lost update.  When two ingest calls have both returned success (and
\* nothing else has run), a readLogs contains the entries of both.  Two
\* ingests that do not overlap always leave both entries; the two of a
\* violation overlap.
C1_NoLostUpdate ==
  \A r1, r2 \in Req :
    (r1 # r2 /\ Stored(r1) /\ Stored(r2)
       /\ \A r \in Req \ {r1, r2} : pc[r] = "idle")
    => LET got == readLogs(file, "ok") IN
         /\ got.ok
         /\ \A e \in {res[r1].log, res[r2].log} :
              Count(e, got.logs) >= Cardinality(IngestsOf(e))

\* C2: after the ingests have returned (none with a storage error), query({})
\* contains each entry once per successful ingest of it (and once per time
\* the file held it at start-up): never fewer, never more.
C2_ExactlyOncePerIngest ==
  (Quiet /\ NoStorageError)
  => LET got == readLogs(file, "ok") IN
       /\ got.ok
       /\ \A e \in Entries :
            Count(e, QueryLogs(got.logs, filtersFromQuery(NoQuery)))
              = Count(e, hist.initLogs) + Cardinality(IngestsOf(e))

\* C3: the sequence a query returns is ordered newest-first by the parsed
\* instant of the timestamps.
C3_NewestFirst ==
  \A r \in Req :
    res[r].status = 200
    => \A i, j \in DOMAIN res[r].logs :
         i < j => LET ti == DateGetTime(res[r].logs[i].timestamp)
                      tj == DateGetTime(res[r].logs[j].timestamp)
                  IN ~ti.nan /\ ~tj.nan /\ ti.t >= tj.t

\* C3 witness: a query has returned, first, an entry whose timestamp is the
\* smaller one as a string, and was stored behind the other
C3_Witness ==
  \E r \in Req :
    /\ res[r].status = 200
    /\ Len(res[r].logs) >= 2
    /\ StrLess(res[r].logs[1].timestamp, res[r].logs[2].timestamp)
    /\ file.logs[1] = res[r].logs[2]

\* C4: whatever a connection has been sent comes from an ingest that has
\* returned successfully, and (once the handlers have answered, none with a
\* storage error) a readLogs finds it.
C4_PublishAfterPersist ==
  \A c \in Client : \A i \in DOMAIN inbox[c] :
    LET m == inbox[c][i] IN
      /\ Stored(m.req)
      /\ res[m.req].log = m.payload
      /\ (Quiet /\ NoStorageError)
         => LET got == readLogs(file, "ok") IN
              got.ok /\ Count(m.payload, got.logs) >= 1

\* C5: a submission whose validation fails is answered 400 with the
\* validation error in the step that takes it, and that step leaves the file
\* and every connection as they were and calls neither appendLog nor
\* broadcast.
C5_RejectedLeavesNoTrace ==
  [][\A r \in Req :
       (pc[r] = "idle" /\ req'[r].method = "POST"
          /\ ~validateLogBody(req'[r].body).ok)
       => /\ pc'[r] = "done"
          /\ res'[r].status = 400
          /\ res'[r].error = validateLogBody(req'[r].body).message
          /\ res'[r].field = validateLogBody(req'[r].body).field
          /\ file' = file
          /\ inbox' = inbox
          /\ hist' = hist]_vars

\* C5 witness: a body without `message` has been answered 400, missing field
C5_Witness ==
  \E r \in Req :
    /\ Prop(req[r].body, "message").t = "undefined"
    /\ res[r].status = 400
    /\ res[r].error = "Missing required field: "
    /\ res[r].field = "message"

\* C6: when an appendLog has failed (and no other request has run), a
\* readLogs returns the collection of before it, and nothing was broadcast
\* for the request.
C6_FailedAppendKeepsCollection ==
  \A r \in Req :
    (req[r].method = "POST" /\ res[r].status = 500
       /\ \A q \in Req \ {r} : pc[q] = "idle")
    => /\ LET got == readLogs(file, "ok") IN
            got.ok /\ got.logs = hist.initLogs
       /\ \A i \in DOMAIN hist.published : hist.published[i].req # r

\* the calls of broadcast for request r
Publishes(r) == {i \in DOMAIN hist.published : hist.published[i].req = r}

\* C7 as claimed: on every entry point, broadcast is called exactly once,
\* with the stored entry, for a request answered 201 and never for another.
C7_EveryEntryPointPublishes ==
  \A r \in Req :
    /\ Cardinality(Publishes(r)) = IF Stored(r) THEN 1 ELSE 0
    /\ \A i \in Publishes(r) : hist.published[i].log = res[r].log

\* C7 as amended: that holds of the Express controller; the serverless
\* handler never calls broadcast, also when it answers 201.
C7_ExpressPublishesOnce ==
  \A r \in Req :
    IF deployment = "express"
    THEN /\ Cardinality(Publishes(r)) = IF Stored(r) THEN 1 ELSE 0
         /\ \A i \in Publishes(r) :
              /\ hist.published[i].log = res[r].log
              /\ res[r].log = validateLogBody(req[r].body).log
    ELSE Publishes(r) = {}

\* C7 witness: the controller has answered 201 and 500, with one broadcast
C7_Witness ==
  /\ deployment = "express"
  /\ \E r, q \in Req :
       /\ Stored(r) /\ Cardinality(Publishes(r)) = 1
       /\ req[q].method = "POST" /\ res[q].status = 500

\* the ingest of request r succeeds in this step
Succeeds(r) == pc[r] = "written" /\ res'[r].status = 201

\* C8: no backlog, no miss.  A connection starts with nothing sent to it; in
\* the step in which an ingest succeeds, every connection that is open is
\* sent its entry, behind what it was sent before, and no other connection
\* is sent anything; no other step sends anything.
C8_NoBacklogNoMiss ==
  [][\A c \in Client :
       /\ (clients[c] = "new" /\ clients'[c] = "open") => inbox'[c] = <<>>
       /\ \A r \in Req :
            (Succeeds(r) /\ clients[c] = "open")
            => inbox'[c] = Append(inbox[c], [req |-> r, payload |-> res'[r].log])
       /\ ((\A r \in Req : ~Succeeds(r)) \/ clients[c] # "open")
            => inbox'[c] \in {inbox[c], <<>>}]_vars

\* C8 witness: an open connection has been sent the entry of the second
\* ingest and not that of the first, which succeeded before it connected
C8_Witness ==
  \E c \in Client :
    /\ clients[c] = "open"
    /\ Len(hist.completed) = 2
    /\ Len(inbox[c]) = 1
    /\ inbox[c][1].req = hist.completed[2]

\* the place of request r among the appends that have completed
Place(r) == CHOOSE k \in DOMAIN hist.completed : hist.completed[k] = r

\* C9: what a connection has been sent is in the order in which the appends
\* completed.
C9_DeliveryFollowsCompletion ==
  \A c \in Client : \A i, j \in DOMAIN inbox[c] :
    i < j => /\ inbox[c][i].req \in {hist.completed[k] : k \in DOMAIN hist.completed}
             /\ inbox[c][j].req \in {hist.completed[k] : k \in DOMAIN hist.completed}
             /\ Place(inbox[c][i].req) < Place(inbox[c][j].req)

\* C9 witness: a connection has been sent the entries of two requests handled
\* concurrently, the later request's first
C9_Witness ==
  \E c \in Client :
    /\ Len(inbox[c]) = 2
    /\ inbox[c][1].req = 2
    /\ inbox[c][2].req = 1

\* C10: a query that reads the file while an appendLog is in progress gets
\* the whole collection of before the append or the whole one after it.
C10_ReadersSeeWholeCollections ==
  [][\A r \in Req :
       (pc[r] = "idle" /\ req'[r].method = "GET" /\ res'[r].status = 200
          /\ \E q \in Req : Appending(q))
       => res'[r].logs \in
            {sortByTimestampDesc(c) :
               c \in {hist'.durable} \cup {local[q].logs : q \in {q \in Req : Appending(q)}}}]_vars

\* the data file holds a text that is no collection, and no write is under way
StoreUnreadable ==
  /\ file.kind \in {"empty", "corrupt"}
  /\ \A q \in Req : ~Appending(q)

\* C11: a store whose content is no well-formed collection is surfaced.  The
\* step that takes a query, or a valid submission, while the file holds such
\* a content answers it 500 and leaves the file as it is.
C11_CorruptStoreSurfaced ==
  [][\A r \in Req :
       (pc[r] = "idle" /\ pc'[r] # "idle" /\ StoreUnreadable
          /\ (req'[r].method = "POST" => validateLogBody(req'[r].body).ok))
       => /\ pc'[r] = "done"
          /\ res'[r].status = 500
          /\ file' = file]_vars

\* C12: the store is append-only.  Once the appendLog of a request has
\* returned successfully, every readLogs that succeeds contains its entry.
C12_AppendOnly ==
  \A r \in Req :
    Stored(r)
    => LET got == readLogs(file, "ok") IN
         got.ok => Count(res[r].log, got.logs) >= 1

\* C13: storage order is arrival order.  When two submissions have both
\* succeeded (none has failed on the storage), a readLogs holds the entry of
\* the one that arrived first before the entry of the other.
C13_StoredInArrivalOrder ==
  \A r1, r2 \in Req :
    (r1 < r2 /\ Stored(r1) /\ Stored(r2) /\ Quiet /\ NoStorageError)
    => LET got == readLogs(file, "ok") IN
         /\ got.ok
         /\ \E i, j \in DOMAIN got.logs :
              i < j /\ got.logs[i] = res[r1].log /\ got.logs[j] = res[r2].log

\* request r is a search that has been answered with its result
Answered(r) == req[r].method = "GET" /\ res[r].status = 200

Range(seq) == {seq[i] : i \in DOMAIN seq}

\* the same entries, each as many times
SameBag(s1, s2) == \A e \in Range(s1) \cup Range(s2) : Count(e, s1) = Count(e, s2)

\* the query string q without key k, and with key k only
Without(q, k) == [x \in DOMAIN q \ {k} |-> q[x]]
Only(q, k) == [x \in {k} |-> q[k]]

\* what a search with query string q returns on the store as it is
ResultOf(q) == QueryLogs(file.logs, filtersFromQuery(q))

IsBlank(v) == \A i \in DOMAIN v : v[i] = " "

\* sub occurs in s
HasSubstring(s, sub) ==
  \E i \in 0..Len(s) : \E j \in i..Len(s) : SubSeq(s, i + 1, j) = sub

\* C14: filters combine with AND.  The set of entries a search with two
\* filters returns is the intersection of the sets the searches with each
\* filter alone return.
C14_FiltersIntersect ==
  \A r \in Req :
    Answered(r)
    => \A k1, k2 \in DOMAIN req[r].query :
         k1 # k2
         => Range(res[r].logs)
              = Range(ResultOf(Only(req[r].query, k1)))
                  \cap Range(ResultOf(Only(req[r].query, k2)))

\* C14 witness: a search with two filters has returned some entries, fewer
\* than one filter alone returns, and the other filter alone does not return
\* the whole store
C14_Witness ==
  \E r \in Req : \E k1, k2 \in DOMAIN req[r].query :
    /\ Answered(r) /\ k1 # k2
    /\ res[r].logs # <<>>
    /\ Range(res[r].logs) # Range(ResultOf(Only(req[r].query, k1)))
    /\ Range(ResultOf(Only(req[r].query, k2))) # Range(file.logs)

\* C15: a search with parseable bounds T1 <= T2 returns exactly the stored
\* entries whose instant t satisfies T1 <= t <= T2, both bounds included.
C15_RangeInclusive ==
  \A r \in Req :
    (Answered(r) /\ DOMAIN req[r].query = {"timestamp_start", "timestamp_end"})
    => LET T1 == DateGetTime(req[r].query["timestamp_start"])
           T2 == DateGetTime(req[r].query["timestamp_end"])
           Within(e) == LET t == DateGetTime(e.timestamp)
                        IN ~t.nan /\ T1.t <= t.t /\ t.t <= T2.t
       IN (~T1.nan /\ ~T2.nan /\ T1.t <= T2.t)
          => SameBag(res[r].logs, SelectSeq(file.logs, Within))

\* C15 witness: a search with T1 < T2 has returned an entry at T1 and one at
\* T2
C15_Witness ==
  \E r \in Req :
    /\ Answered(r)
    /\ DOMAIN req[r].query = {"timestamp_start", "timestamp_end"}
    /\ LET T1 == DateGetTime(req[r].query["timestamp_start"])
           T2 == DateGetTime(req[r].query["timestamp_end"])
       IN /\ ~T1.nan /\ ~T2.nan /\ T1.t < T2.t
          /\ \E i, j \in DOMAIN res[r].logs :
               /\ DateGetTime(res[r].logs[i].timestamp) = T1
               /\ DateGetTime(res[r].logs[j].timestamp) = T2

\* C16: a search by level returns exactly the stored entries whose level is
\* the filter value, both lowercased: none whose level only contains it.
C16_LevelExact ==
  \A r \in Req :
    (Answered(r) /\ DOMAIN req[r].query = {"level"}
       /\ ~IsBlank(req[r].query["level"]))
    => LET v == ToLowerCase(Trim(req[r].query["level"]))
           SameLevel(e) == ToLowerCase(e.level) = v
       IN SameBag(res[r].logs, SelectSeq(file.logs, SameLevel))

\* C16 witness: the search level=ERROR has returned entries, and not the
\* whole store
C16_Witness ==
  \E r \in Req :
    /\ Answered(r)
    /\ req[r].query = [k \in {"level"} |-> <<"E","R","R","O","R">>]
    /\ res[r].logs # <<>>
    /\ Len(res[r].logs) < Len(file.logs)

SubstringKeys == {"message", "resourceId", "traceId", "spanId", "commit"}

\* C17: a search by message, resourceId, traceId, spanId or commit returns
\* exactly the stored entries whose field contains the filter value, both
\* lowercased.
C17_SubstringMatch ==
  \A r \in Req : \A k \in SubstringKeys :
    (Answered(r) /\ DOMAIN req[r].query = {k} /\ ~IsBlank(req[r].query[k]))
    => LET v == ToLowerCase(Trim(req[r].query[k]))
           Holds(e) == HasSubstring(ToLowerCase(e[k]), v)
       IN SameBag(res[r].logs, SelectSeq(file.logs, Holds))

\* C17 witness: the search message=OO has returned the entry whose message
\* is "Took", and not the whole store
C17_Witness ==
  \E r \in Req :
    /\ Answered(r)
    /\ req[r].query = [k \in {"message"} |-> <<"O","O">>]
    /\ res[r].logs # <<>>
    /\ \A i \in DOMAIN res[r].logs : res[r].logs[i].message = <<"T","o","o","k">>
    /\ Len(res[r].logs) < Len(file.logs)

\* C18: a key with a blank value is no constraint.  A search whose query
\* string holds such a key returns the sequence the search without the key
\* returns, through filtersFromQuery and when logService.query is given the
\* blank value itself.
C18_BlankIsNoConstraint ==
  \A r \in Req :
    Answered(r)
    => \A k \in DOMAIN req[r].query :
         IsBlank(req[r].query[k])
         => /\ res[r].logs = ResultOf(Without(req[r].query, k))
            /\ QueryLogs(file.logs, req[r].query)
                 = QueryLogs(file.logs, Without(req[r].query, k))

\* C18 witness: a search with a blank key and another filter has returned
\* entries, and not the whole store
C18_Witness ==
  \E r \in Req : \E k1, k2 \in DOMAIN req[r].query :
    /\ Answered(r)
    /\ IsBlank(req[r].query[k1])
    /\ ~IsBlank(req[r].query[k2])
    /\ res[r].logs # <<>>
    /\ Len(res[r].logs) < Len(file.logs)

\* a timestamp filter of query string q whose value is no date
Unparseable(q, k) ==
  /\ k \in DOMAIN q \cap {"timestamp_start", "timestamp_end"}
  /\ ~IsBlank(q[k])
  /\ DateGetTime(Trim(q[k])).nan

\* C19: a timestamp filter whose value does not parse is satisfied by every
\* entry.  The search is not rejected (it fails only when the file cannot be
\* read) and returns what the search without the key returns.
C19_UnparseableBoundIgnored ==
  \A r \in Req : \A k \in DOMAIN req[r].query :
    (req[r].method = "GET" /\ pc[r] = "done" /\ Unparseable(req[r].query, k))
    => /\ res[r].status = 200 \/ (res[r].status = 500 /\ res[r].error = "EIO")
       /\ res[r].status = 200
          => res[r].logs = ResultOf(Without(req[r].query, k))

\* C19 witness: a search with an unparseable bound and another filter has
\* returned entries, and not the whole store
C19_Witness ==
  \E r \in Req : \E k \in DOMAIN req[r].query :
    /\ Answered(r)
    /\ Unparseable(req[r].query, k)
    /\ Cardinality(DOMAIN req[r].query) = 2
    /\ res[r].logs # <<>>
    /\ Len(res[r].logs) < Len(file.logs)

\* the four levels, in lower case
FourLevels ==
  {<<"e","r","r","o","r">>, <<"w","a","r","n">>, <<"i","n","f","o">>,
   <<"d","e","b","u","g">>}

\* C20: the level is normalized and constrained at validation.  A submission
\* with level CRITICAL is answered 400 with the invalid-level error; one that
\* is stored is stored with its level in lower case; every entry that is in
\* the file, or that an appendLog is about to write, has one of the four
\* levels.
C20_LevelNormalized ==
  /\ \A r \in Req :
       (req[r].method = "POST" /\ pc[r] # "idle")
       => /\ Prop(req[r].body, "level").s = <<"C","R","I","T","I","C","A","L">>
             => /\ pc[r] = "done"
                /\ res[r].status = 400
                /\ res[r].error = "Invalid level: must be one of error, warn, info, debug"
          /\ (Stored(r) /\ Prop(req[r].body, "level").s = <<"E","R","R","O","R">>)
             => res[r].log.level = <<"e","r","r","o","r">>
          /\ (Stored(r) /\ Prop(req[r].body, "level").s = <<"D","e","B","u","g">>)
             => res[r].log.level = <<"d","e","b","u","g">>
          /\ Stored(r) => res[r].log.level \in FourLevels
          /\ \A i \in DOMAIN local[r].logs : local[r].logs[i].level \in FourLevels
  /\ \A i \in DOMAIN file.logs : file.logs[i].level \in FourLevels

\* C20 witness: a submission with level CRITICAL has been rejected, and one
\* with level DeBug is in the file with level debug
C20_Witness ==
  /\ \E r \in Req :
       /\ Prop(req[r].body, "level").s = <<"C","R","I","T","I","C","A","L">>
       /\ res[r].status = 400
  /\ \E r \in Req :
       /\ Stored(r)
       /\ Prop(req[r].body, "level").s = <<"D","e","B","u","g">>
       /\ \E i \in DOMAIN file.logs : file.logs[i] = res[r].log

\* request r is a submission that has been answered
Submitted(r) == req[r].method = "POST" /\ pc[r] = "done"

\* C21: a body that is null, undefined, a scalar or an array is rejected with
\* 'Request body must be a JSON object', and with no other classification.
C21_NonObjectBodyIsMalformed ==
  \A r \in Req :
    Submitted(r) /\ req[r].body.t # "object"
      => /\ res[r].status = 400
         /\ res[r].error = "Request body must be a JSON object"

\* the entries request r has put, or is about to put, into the store
EntryOf(r) ==
  IF Stored(r) THEN {res[r].log}
  ELSE IF Appending(r) THEN {local[r].log} ELSE {}

C23_MessageNonEmpty ==
  /\ \A r \in Req : \A e \in EntryOf(r) : e.message # <<>>
  /\ file.kind = "json" => \A i \in DOMAIN file.logs : file.logs[i].message # <<>>

\* the required fields in the order in which they are reported
FieldOrder ==
  <<"level", "message", "resourceId", "timestamp", "traceId", "spanId", "commit">>

\* the position in FieldOrder of the first field of body that is not a
\* string; 0 when all are strings
FirstDefect(body) ==
  LET D == {i \in DOMAIN FieldOrder : body.props[FieldOrder[i]].t # "string"}
  IN IF D = {} THEN 0 ELSE CHOOSE i \in D : \A j \in D : i <= j

\* C27: a required field that is absent or null is answered with the
\* missing-field error naming it, one that is present but not a string with
\* the wrong-type error naming it; of several defective fields the first in
\* the order level, message, resourceId, timestamp, traceId, spanId, commit is
\* the one reported, whatever the level, the timestamp and the metadata are.
C27_FirstDefectiveFieldReported ==
  \A r \in Req :
    Submitted(r) /\ req[r].body.t = "object" /\ FirstDefect(req[r].body) # 0
      => LET field == FieldOrder[FirstDefect(req[r].body)] IN
         /\ res[r].status = 400
         /\ res[r].field = field
         /\ res[r].error =
              IF req[r].body.props[field].t \in {"undefined", "null"}
              THEN "Missing required field: " ELSE "Field must be a string: "

\* a body whose message is a number and whose commit is null, with a level
\* outside the enum, a timestamp that is no date and an array as metadata,
\* has been answered with the wrong type of message
C27_Witness ==
  \E r \in Req :
    /\ Submitted(r)
    /\ req[r].body =
         BodyWith(BodyWith(BodyBadRest, "message", Num(<<"5">>)), "commit", Null)
    /\ res[r].status = 400
    /\ res[r].field = "message"
    /\ res[r].error = "Field must be a string: "

\* C24: delivery is best-effort and never reaches the caller.  When the
\* append of a submission has returned, the controller answers 201 with the
\* stored entry and leaves the store alone, whatever the connections are; in
\* that step each open connection is sent the entry and each other connection
\* is sent nothing, and nothing is kept to be sent to it later.
C24_DeliveryNeverAffectsCaller ==
  [][\A r \in Req :
       pc[r] = "written" /\ pc'[r] = "done"
         => /\ res'[r].status = 201
            /\ res'[r].log = validateLogBody(req[r].body).log
            /\ file' = file
            /\ \A c \in Client :
                 IF clients[c] = "open" /\ deployment = "express"
                 THEN inbox'[c] =
                        Append(inbox[c], [req |-> r, payload |-> res'[r].log])
                 ELSE inbox'[c] = inbox[c]]_vars

\* C24 witness: two submissions were answered 201, the first while the
\* connection was open and the second while it was closing
C24_Witness ==
  \E c \in Client :
    /\ clients[c] = "closing"
    /\ Stored(1) /\ Stored(2)
    /\ hist.completed = <<1, 2>>
    /\ Len(inbox[c]) = 1 /\ inbox[c][1].req = 1

Written == {q \in Req : pc[q] = "written" \/ Stored(q)}

\* C25: POST /logs is answered 201 with the stored entry exactly when the
\* body was validated and its append returned, 400 exactly when validation
\* failed, and 500 when reading or writing the store failed; the store never
\* holds more entries than it had at the start plus one per append that
\* returned, so a request answered 400 or 500 has left none.
C25_StatusMapping ==
  /\ [][\A r \in Req :
          pc[r] # "done" /\ pc'[r] = "done" /\ req'[r].method = "POST"
            => LET v == validateLogBody(req'[r].body) IN
               /\ res'[r].status \in {201, 400, 500}
               /\ res'[r].status = 400 <=> ~v.ok
               /\ res'[r].status = 201 <=> pc[r] = "written"
               /\ res'[r].status = 201 => v.ok /\ res'[r].log = v.log
               /\ res'[r].status = 500
                    => /\ v.ok
                       /\ pc[r] \in {"idle", "writeOpen", "writeData"}
                       /\ res'[r].error \in {"EIO", "SyntaxError"}
               /\ res'[r].status \in {400, 500}
                    => res'[r].log = NoLog /\ file' \in {file, ensureDataFile(file)}]_vars
  /\ [](file.kind = "json"
          => Len(file.logs) <= Len(hist.initLogs) + Cardinality(Written))

\* C25 witness: one submission was answered 400 and one 500, its writeFile
\* having failed after the open, and the store holds no entry
C25_Witness ==
  \E r, q \in Req :
    /\ Submitted(r) /\ res[r].status = 400
    /\ Submitted(q) /\ res[q].status = 500 /\ res[q].error = "EIO"
    /\ file.kind = "empty"

\* the requests that are submissions
Posts == {r \in Req : req[r].method = "POST"}

\* C26: the store initializes itself.  On a data file that does not exist,
\* the first readLogs creates it and returns the empty sequence, for a search
\* and for a submission alike; no request fails for the file being missing;
\* and when the first appendLog on a file so created has returned, the file
\* holds exactly the entry it appended.
C26_StoreAutoInitialized ==
  /\ [][file.kind = "absent"
          => \A r \in Req :
               /\ pc[r] = "idle" /\ req'[r].method = "GET"
                    => /\ file' = Json(<<>>)
                       /\ \/ res'[r].status = 200 /\ res'[r].logs = <<>>
                          \/ res'[r].status = 500 /\ res'[r].error = "EIO"
               /\ pc[r] = "idle" /\ req'[r].method = "POST"
                  /\ validateLogBody(req'[r].body).ok
                    => /\ file' = Json(<<>>)
                       /\ \/ /\ pc'[r] = "writeOpen"
                             /\ local'[r].logs = <<validateLogBody(req'[r].body).log>>
                          \/ res'[r].status = 500 /\ res'[r].error = "EIO"]_vars
  /\ [](\A r \in Req : res[r].error # "ENOENT")
  /\ [](\A r \in Req :
          hist.created /\ Posts = {r} /\ Written = {r}
            => file = Json(<<validateLogBody(req[r].body).log>>))

\* C26 witness: on a file that was missing, a search was answered with the
\* empty list and then a submission was stored; the file holds its entry only
C26_Witness ==
  /\ hist.created
  /\ Answered(1) /\ res[1].logs = <<>>
  /\ Stored(2)
  /\ file = Json(<<res[2].log>>)

C30_LatestFiltersWin ==
  hook.mounted /\ (\A i \in DOMAIN hook.fetches : ~hook.fetches[i].pending)
    => /\ hook.fetches[Len(hook.fetches)].level = hook.level
       /\ hook.logs = hook.fetches[Len(hook.fetches)].data

=============================================================================
